---------------------------- MODULE Spec2Model ----------------------------
(***************************************************************************)
(* A model of cosmwasm-custom-decimal: the fixed-point type Decimal<D>     *)
(* (src/src/lib.rs), its operators (src/src/ops.rs) and its storage codec  *)
(* (src/src/serde_impl.rs).                                                *)
(*                                                                         *)
(* Scaling.  The crate stores atomics in a 128-bit word, multiplies and    *)
(* divides through a 256-bit intermediate and serializes at 18 decimal     *)
(* places.  TLC's integers are 32 bits wide, so the model keeps the shape  *)
(* and scales the numbers: the word is WORD_BITS = 15 bits wide            *)
(* (2^15 - 1 = 32767 is about 3.3 * 10^4 where 2^128 - 1 is about          *)
(* 3.4 * 10^38), the intermediate is twice that, and the reference         *)
(* precision is REF_DECIMALS = 2 where the crate has 18.  The valid        *)
(* precisions are the D for which 10^D fits the word: 0..4 here, 0..38 in  *)
(* the crate, so the model has precisions below, at and above the          *)
(* reference precision as the crate has.                                   *)
(*                                                                         *)
(* Every operation of the crate is a pure function.  Each specification    *)
(* below draws the inputs in its initial states and applies operations to  *)
(* them, one action per operation; pc names the operation applied last.    *)
(*                                                                         *)
(* Strings are sequences of one-character strings.                         *)
(***************************************************************************)
EXTENDS Integers, Sequences, FiniteSets

VARIABLES
    pc,               \* the operation applied last ("start": none yet)
    D,                \* the const generic D of the value operated on
    D2,               \* the target precision of a conversion or a decode
    a,                \* atomics of the first operand
    b,                \* atomics of the second operand
    str,              \* a text: an input of a parser or an output of a formatter
    str2,             \* a second text, to compare str against
    res,              \* the result of the operation applied last
    overflow_checks   \* the build profile: are native overflows checked (panic) or wrapping

vars == <<pc, D, D2, a, b, str, str2, res, overflow_checks>>

---------------------------------------------------------------------------
(* Widths and bounds                                                       *)

\* Width of Uint128 in the model (128 in the crate).
WORD_BITS == 15

\* The reference precision of the storage codec (18 in the crate).
REF_DECIMALS == 2

\* The u64 argument of percent, permille and bps: narrower than the word
\* and, as in the crate, wide enough for x * (FRACTIONAL / 100) to leave the
\* word at the top precisions.
U64_BITS == 9

\* Operands 0..MaxSmall are all drawn.
MaxSmall == 25

\* The operands U128_MAX - MaxNear .. U128_MAX are all drawn.
MaxNear == 3

\* Values 0..MaxUnary are all drawn as the operand of a unary operation.
MaxUnary == 1100

\* Input strings: every string over Alphabet of at most MaxStrLen characters.
MaxStrLen == 4

\* Input strings: fractional segments of up to MaxFracZeros leading zeros.
MaxFracZeros == 16

\* from_atomics: the input's number of decimals is 0..MaxDecimals.
MaxDecimals == 20

\* pow and checked_pow: the exponent is 0..MaxExp.
MaxExp == 6

RECURSIVE Pow2(_)
Pow2(n) == IF n = 0 THEN 1 ELSE 2 * Pow2(n - 1)

\* Uint128::MAX
U128_MAX == Pow2(WORD_BITS) - 1

\* Uint256::MAX
U256_MAX == Pow2(2 * WORD_BITS) - 1

\* u64::MAX, the width of the argument of percent, permille and bps
U64_MAX == Pow2(U64_BITS) - 1

---------------------------------------------------------------------------
(* Results.  Ok(v) is a value, Option::None is NoneR, a panic carries its  *)
(* message, and a recoverable error carries its kind.                      *)

Ok(v) == [tag |-> "Ok", val |-> v, msg |-> ""]

NoneR == [tag |-> "None", val |-> 0, msg |-> ""]

Panic(m) == [tag |-> "Panic", val |-> 0, msg |-> m]

Err(kind, m) == [tag |-> kind, val |-> 0, msg |-> m]

NoResult == [tag |-> "-", val |-> 0, msg |-> ""]

IsOk(r) == r.tag = "Ok"

\* The kinds of recoverable error: CustomDecimalError variants and serde's E::custom.
ErrorTags == {"ParseError", "Overflow", "DeError"}

---------------------------------------------------------------------------
(* pow10 and the per-precision constants                                   *)

\* pow10's loop, `result *= 10` exp times on a u128: val is the wrapped
\* product, ovf says whether a multiplication overflowed on the way.
RECURSIVE pow10_loop(_)
pow10_loop(exp) ==
    IF exp = 0 THEN [val |-> 1, ovf |-> FALSE]
    ELSE LET p == pow10_loop(exp - 1)
         IN  [val |-> (p.val * 10) % (U128_MAX + 1),
              ovf |-> p.ovf \/ p.val * 10 > U128_MAX]

\* pow10(exp) where the exponent is known not to overflow (exp <= a valid D).
pow10(exp) == pow10_loop(exp).val

\* The precisions Decimal<D> can be instantiated at: FRACTIONAL = pow10(D) is
\* a constant of the type, and its overflow is a compile error.
Precisions == {d \in 0..WORD_BITS : ~pow10_loop(d).ovf}

FRACTIONAL(d) == pow10(d)

ZERO == 0

ONE(d) == pow10(d)

MAX == U128_MAX

---------------------------------------------------------------------------
(* Uint128 and Uint256 arithmetic (cosmwasm_std), as the crate calls it    *)

\* Uint128::checked_add
u128_checked_add(x, y) == IF x + y > U128_MAX THEN NoneR ELSE Ok(x + y)

\* Uint128::checked_sub
u128_checked_sub(x, y) == IF y > x THEN NoneR ELSE Ok(x - y)

\* Uint128::saturating_add
u128_saturating_add(x, y) == IF x + y > U128_MAX THEN U128_MAX ELSE x + y

\* Uint128::saturating_sub
u128_saturating_sub(x, y) == IF y > x THEN 0 ELSE x - y

\* Uint128::checked_rem
u128_checked_rem(x, y) == IF y = 0 THEN NoneR ELSE Ok(x % y)

\* Uint128::checked_mul
u128_checked_mul(x, y) == IF x * y > U128_MAX THEN NoneR ELSE Ok(x * y)

\* Uint256::checked_mul
u256_checked_mul(x, y) == IF x * y > U256_MAX THEN NoneR ELSE Ok(x * y)

\* Uint256::checked_div
u256_checked_div(x, y) == IF y = 0 THEN NoneR ELSE Ok(x \div y)

\* Uint128::try_from(Uint256)
u128_try_from(x) == IF x > U128_MAX THEN NoneR ELSE Ok(x)

---------------------------------------------------------------------------
(* Checked operations (lib.rs) and the operators (ops.rs)                  *)

\* checked_add with a wrapping sum.
checked_add_wrapping(x, y) == Ok((x + y) % (U128_MAX + 1))

\* Decimal::checked_add
checked_add(x, y) == u128_checked_add(x, y)

\* add_impl (the + operator)
add_impl(x, y) ==
    LET r == u128_checked_add(x, y)
    IN  IF IsOk(r) THEN r ELSE Panic("attempt to add with overflow")

\* checked_sub with a wrapping difference.
checked_sub_wrapping(x, y) == Ok((x - y + U128_MAX + 1) % (U128_MAX + 1))

\* Decimal::checked_sub
checked_sub(x, y) == u128_checked_sub(x, y)

\* a - b: the Sub operator
sub_impl(x, y) ==
    LET r == u128_checked_sub(x, y)
    IN  IF IsOk(r) THEN r ELSE Panic("attempt to subtract with overflow")

\* checked_mul with the product taken in the word itself.
checked_mul_narrow(x, y, d) ==
    LET p == u128_checked_mul(x, y)
    IN  IF ~IsOk(p) THEN NoneR ELSE Ok(p.val \div FRACTIONAL(d))

\* Decimal::checked_mul
checked_mul(x, y, d) ==
    LET p == u256_checked_mul(x, y)
    IN  IF ~IsOk(p) THEN NoneR
        ELSE LET q == u256_checked_div(p.val, FRACTIONAL(d))
             IN  IF ~IsOk(q) THEN NoneR ELSE u128_try_from(q.val)

\* mul_impl without the double-width intermediate.
mul_impl_narrow(x, y, d) ==
    LET p == u128_checked_mul(x, y)
    IN  IF ~IsOk(p) THEN Panic("attempt to multiply with overflow")
        ELSE Ok(p.val \div FRACTIONAL(d))

\* mul_impl (the * operator)
mul_impl(x, y, d) ==
    LET p == u256_checked_mul(x, y)
    IN  IF ~IsOk(p) THEN Panic("unwrap on an Err value")
        ELSE LET q == u256_checked_div(p.val, FRACTIONAL(d))
             IN  IF ~IsOk(q) THEN Panic("unwrap on an Err value")
                 ELSE LET n == u128_try_from(q.val)
                      IN  IF IsOk(n) THEN n
                          ELSE Panic("multiplication result exceeds Uint128 range")

\* checked_div with the scaled numerator taken in the word itself.
checked_div_narrow(x, y, d) ==
    IF y = 0 THEN NoneR
    ELSE LET n == u128_checked_mul(x, FRACTIONAL(d))
         IN  IF ~IsOk(n) THEN NoneR ELSE Ok(n.val \div y)

\* checked_div without the test for a zero divisor.
checked_div_unguarded(x, y, d) ==
    LET n == u256_checked_mul(x, FRACTIONAL(d))
    IN  IF ~IsOk(n) THEN NoneR
        ELSE IF y = 0 THEN Ok(U128_MAX)
        ELSE u128_try_from(n.val \div y)

\* Decimal::checked_div
checked_div(x, y, d) ==
    IF y = 0 THEN NoneR
    ELSE LET n == u256_checked_mul(x, FRACTIONAL(d))
         IN  IF ~IsOk(n) THEN NoneR
             ELSE LET q == u256_checked_div(n.val, y)
                  IN  IF ~IsOk(q) THEN NoneR ELSE u128_try_from(q.val)

\* div_impl rounding the quotient up.
div_impl_ceiling(x, y, d) ==
    IF y = 0 THEN Panic("Division by zero")
    ELSE LET r == u128_try_from((x * FRACTIONAL(d) + y - 1) \div y)
         IN  IF IsOk(r) THEN r
             ELSE Panic("division result exceeds Uint128 range")

\* div_impl (the / operator)
div_impl(x, y, d) ==
    IF y = 0 THEN Panic("Division by zero")
    ELSE LET n == u256_checked_mul(x, FRACTIONAL(d))
         IN  IF ~IsOk(n) THEN Panic("unwrap on an Err value")
             ELSE LET q == u256_checked_div(n.val, y)
                  IN  IF ~IsOk(q) THEN Panic("unwrap on an Err value")
                      ELSE LET r == u128_try_from(q.val)
                           IN  IF IsOk(r) THEN r
                               ELSE Panic("division result exceeds Uint128 range")

\* impl Mul<Uint128> for Decimal<d> (decimal * amount): a raw amount
mul_uint(x, n, d) ==
    LET p == u256_checked_mul(x, n)
    IN  IF ~IsOk(p) THEN Panic("unwrap on an Err value")
        ELSE LET q == u256_checked_div(p.val, FRACTIONAL(d))
             IN  IF ~IsOk(q) THEN Panic("unwrap on an Err value")
                 ELSE LET r == u128_try_from(q.val)
                      IN  IF IsOk(r) THEN r
                          ELSE Panic("multiplication result exceeds Uint128 range")

\* impl Mul<Decimal<d>> for Uint128 (amount * decimal): rhs * self
uint_mul(n, x, d) == mul_uint(x, n, d)

\* Decimal / Uint128 dividing as two decimals are divided.
div_uint_rescaled(x, n, d) ==
    IF n = 0 THEN Panic("Division by zero")
    ELSE u128_try_from((x * FRACTIONAL(d)) \div n)

\* impl Div<Uint128> for Decimal<d> (decimal / amount)
div_uint(x, n, d) ==
    IF n = 0 THEN Panic("Division by zero")
    ELSE Ok(x \div n)

\* Decimal::mul_uint_floor: (self * rhs).checked_div(Uint128::one()).unwrap()
mul_uint_floor(x, n, d) ==
    LET product == mul_uint(x, n, d)
    IN  IF ~IsOk(product) THEN product ELSE Ok(product.val \div 1)

\* Decimal::mul_uint_ceil: product is self * rhs, the raw amount already
\* truncated; its remainder modulo Uint128::one() decides the rounding.
mul_uint_ceil(x, n, d) ==
    LET product == mul_uint(x, n, d)
    IN  IF ~IsOk(product) THEN product
        ELSE LET floored == product.val \div 1
             IN  IF product.val % 1 = 0 THEN Ok(floored)
                 ELSE LET s == u128_checked_add(floored, 1)
                      IN  IF IsOk(s) THEN s
                          ELSE Panic("attempt to add with overflow")

\* Decimal::saturating_add
saturating_add(x, y) == Ok(u128_saturating_add(x, y))

\* Decimal::saturating_sub
saturating_sub(x, y) == Ok(u128_saturating_sub(x, y))

\* saturating_mul keeping the low word of an oversized product.
saturating_mul_wrapping(x, y, d) ==
    Ok(((x * y) \div FRACTIONAL(d)) % (U128_MAX + 1))

\* Decimal::saturating_mul
saturating_mul(x, y, d) ==
    LET r == checked_mul(x, y, d)
    IN  IF IsOk(r) THEN r ELSE Ok(MAX)

\* The loop of checked_pow: `for _ in 1..exp { result = result.checked_mul(self)? }`
\* with k iterations left.
RECURSIVE checked_pow_loop(_, _, _, _)
checked_pow_loop(result, x, k, d) ==
    IF k = 0 THEN Ok(result)
    ELSE LET r == checked_mul(result, x, d)
         IN  IF ~IsOk(r) THEN NoneR
             ELSE checked_pow_loop(r.val, x, k - 1, d)

\* checked_pow whose loop runs exp times.
checked_pow_extra_step(x, exp, d) ==
    IF exp = 0 THEN Ok(ONE(d))
    ELSE IF exp = 1 THEN Ok(x)
    ELSE IF x = 0 THEN Ok(ZERO)
    ELSE checked_pow_loop(x, x, exp, d)

\* Decimal::checked_pow
checked_pow(x, exp, d) ==
    IF exp = 0 THEN Ok(ONE(d))
    ELSE IF exp = 1 THEN Ok(x)
    ELSE IF x = 0 THEN Ok(ZERO)
    ELSE checked_pow_loop(x, x, exp - 1, d)

\* Decimal::pow
pow(x, exp, d) ==
    LET r == checked_pow(x, exp, d)
    IN  IF IsOk(r) THEN r ELSE Panic("overflow in pow")

\* Decimal::floor
floor(x, d) == Ok((x \div FRACTIONAL(d)) * FRACTIONAL(d))

\* Decimal::ceil: floor, or floor + ONE with the + operator
ceil(x, d) ==
    LET fl == floor(x, d)
    IN  IF x = fl.val THEN fl ELSE add_impl(fl.val, ONE(d))

\* Decimal::to_uint_floor
to_uint_floor(x, d) == Ok(x \div FRACTIONAL(d))

\* Decimal::to_uint_ceil: self.ceil().to_uint_floor()
to_uint_ceil(x, d) ==
    LET c == ceil(x, d)
    IN  IF ~IsOk(c) THEN c ELSE to_uint_floor(c.val, d)

\* Decimal::checked_rem
checked_rem(x, y) == u128_checked_rem(x, y)

\* rem_impl without the test for a zero divisor.
rem_impl_unguarded(x, y) == IF y = 0 THEN Ok(x) ELSE Ok(x % y)

\* rem_impl (the % operator)
rem_impl(x, y) ==
    IF y = 0 THEN Panic("Division by zero")
    ELSE LET r == u128_checked_rem(x, y)
         IN  IF IsOk(r) THEN r ELSE Panic("unwrap on an Err value")

---------------------------------------------------------------------------
(* Precision conversion (lib.rs)                                           *)

\* to_precision rounding to the nearest value when narrowing.
to_precision_rounding(x, d, d2) ==
    IF d = d2 THEN Ok(x)
    ELSE IF d < d2
    THEN LET r == u128_checked_mul(x, pow10(d2 - d))
         IN  IF IsOk(r) THEN r ELSE Panic("precision conversion overflow")
    ELSE Ok((x + pow10(d - d2) \div 2) \div pow10(d - d2))

\* to_precision with a wrapping multiplication when widening.
to_precision_wrapping(x, d, d2) ==
    IF d = d2 THEN Ok(x)
    ELSE IF d < d2 THEN Ok((x * pow10(d2 - d)) % (U128_MAX + 1))
    ELSE Ok(x \div pow10(d - d2))

\* Decimal<d>::to_precision::<d2>
to_precision(x, d, d2) ==
    IF d = d2 THEN Ok(x)
    ELSE IF d < d2
    THEN LET r == u128_checked_mul(x, pow10(d2 - d))
         IN  IF IsOk(r) THEN r ELSE Panic("precision conversion overflow")
    ELSE Ok(x \div pow10(d - d2))

\* try_to_precision with a wrapping multiplication when widening.
try_to_precision_wrapping(x, d, d2) ==
    IF d = d2 THEN Ok(x)
    ELSE IF d < d2 THEN Ok((x * pow10(d2 - d)) % (U128_MAX + 1))
    ELSE Ok(x \div pow10(d - d2))

\* Decimal<d>::try_to_precision::<d2>
try_to_precision(x, d, d2) ==
    IF d = d2 THEN Ok(x)
    ELSE IF d < d2 THEN u128_checked_mul(x, pow10(d2 - d))
    ELSE Ok(x \div pow10(d - d2))

---------------------------------------------------------------------------
(* Text: what the codecs use of Rust's formatting and parsing              *)

DigitChars == <<"0", "1", "2", "3", "4", "5", "6", "7", "8", "9">>

IsDigit(c) == \E i \in 1..10 : DigitChars[i] = c

DigitValue(c) == (CHOOSE i \in 1..10 : DigitChars[i] = c) - 1

\* u128's Display: the decimal digits, no padding, no sign.
RECURSIVE u128_to_string(_)
u128_to_string(n) ==
    IF n < 10 THEN <<DigitChars[n + 1]>>
    ELSE u128_to_string(n \div 10) \o <<DigitChars[(n % 10) + 1]>>

\* format!("{:0>width$}", n): the digits of n, zero-padded on the left to at
\* least width characters.
RECURSIVE pad_left_zeros(_, _)
pad_left_zeros(s, width) ==
    IF Len(s) >= width THEN s ELSE pad_left_zeros(<<"0">> \o s, width)

\* str::trim_end_matches('0')
RECURSIVE trim_end_matches_0(_)
trim_end_matches_0(s) ==
    IF Len(s) > 0 /\ s[Len(s)] = "0" THEN trim_end_matches_0(SubSeq(s, 1, Len(s) - 1))
    ELSE s

\* s.split('.').collect(): the segments between the dots, empty ones kept;
\* a string without a dot (the empty one too) is one segment.
RECURSIVE split_dot(_)
split_dot(s) ==
    IF \A i \in 1..Len(s) : s[i] # "." THEN <<s>>
    ELSE LET i == CHOOSE k \in 1..Len(s) :
                      s[k] = "." /\ \A j \in 1..(k - 1) : s[j] # "."
         IN  <<SubSeq(s, 1, i - 1)>> \o split_dot(SubSeq(s, i + 1, Len(s)))

\* The digit loop of str::parse::<u128>: checked multiply by ten and checked
\* add, left to right; any other character is an error.
RECURSIVE parse_digits(_, _)
parse_digits(s, acc) ==
    IF Len(s) = 0 THEN Ok(acc)
    ELSE IF ~IsDigit(s[1]) THEN NoneR
    ELSE IF acc * 10 + DigitValue(s[1]) > U128_MAX THEN NoneR
    ELSE parse_digits(Tail(s), acc * 10 + DigitValue(s[1]))

\* str::parse::<u128>: fails on the empty string, on a lone sign, on a
\* non-digit and on overflow; one leading '+' is accepted, '-' is not.
parse_u128(s) ==
    IF Len(s) = 0 THEN NoneR
    ELSE IF Len(s) = 1 /\ s[1] \in {"+", "-"} THEN NoneR
    ELSE IF s[1] = "+" THEN parse_digits(Tail(s), 0)
    ELSE parse_digits(s, 0)

\* A native u128 multiplication x * y outside the checked helpers: it panics
\* when the build checks overflow and wraps when it does not.
native_mul(x, y, checks) ==
    IF x * y <= U128_MAX THEN Ok(x * y)
    ELSE IF checks THEN Panic("attempt to multiply with overflow")
    ELSE Ok((x * y) % (U128_MAX + 1))

\* pow10(exp) called at run time with an exponent taken from the input.
pow10_runtime(exp, checks) ==
    LET p == pow10_loop(exp)
    IN  IF p.ovf /\ checks THEN Panic("attempt to multiply with overflow")
        ELSE Ok(p.val)

---------------------------------------------------------------------------
(* Constructors (lib.rs)                                                   *)

\* Uint128 * Uint128 (cosmwasm_std): panics on overflow in every build
u128_mul(x, y) ==
    LET r == u128_checked_mul(x, y)
    IN  IF IsOk(r) THEN r ELSE Panic("attempt to multiply with overflow")

\* Decimal::from_atomics
from_atomics(atomics, decimal_places, d, checks) ==
    IF decimal_places < d
    THEN LET scale == pow10(d - decimal_places)
             r == u128_checked_mul(atomics, scale)
         IN  IF IsOk(r) THEN r ELSE Err("Overflow", "Overflow")
    ELSE IF decimal_places = d THEN Ok(atomics)
    ELSE LET scale == pow10_runtime(decimal_places - d, checks)
         IN  IF ~IsOk(scale) THEN scale
             ELSE IF scale.val = 0 THEN Panic("unwrap on an Err value")
             ELSE Ok(atomics \div scale.val)

\* Decimal::percent: Uint128::from(x) * Uint128::from(FRACTIONAL / 100)
percent(x, d) == u128_mul(x, FRACTIONAL(d) \div 100)

\* Decimal::permille
permille(x, d) == u128_mul(x, FRACTIONAL(d) \div 1000)

\* Decimal::bps
bps(x, d) == u128_mul(x, FRACTIONAL(d) \div 10000)

\* from_ratio with the product taken in the word itself.
from_ratio_narrow(numerator, denominator, d) ==
    IF denominator = 0 THEN Panic("Denominator must not be zero")
    ELSE LET p == u128_checked_mul(numerator, FRACTIONAL(d))
         IN  IF ~IsOk(p) THEN Panic("ratio overflow")
             ELSE Ok(p.val \div denominator)

\* Decimal::from_ratio
from_ratio(numerator, denominator, d) ==
    IF denominator = 0 THEN Panic("Denominator must not be zero")
    ELSE LET p == u256_checked_mul(numerator, FRACTIONAL(d))
         IN  IF ~IsOk(p) THEN Panic("unwrap on an Err value")
             ELSE LET q == u256_checked_div(p.val, denominator)
                  IN  IF ~IsOk(q) THEN Panic("unwrap on an Err value")
                      ELSE LET r == u128_try_from(q.val)
                           IN  IF IsOk(r) THEN r ELSE Panic("ratio overflow")

---------------------------------------------------------------------------
(* Text codec (lib.rs): Display and FromStr                                *)

\* Display without the trimming of the fraction's trailing zeros.
to_string_untrimmed(x, d) ==
    LET integer == x \div FRACTIONAL(d)
        frac_part == x % FRACTIONAL(d)
    IN  IF frac_part = 0 THEN u128_to_string(integer)
        ELSE u128_to_string(integer) \o <<".">>
                 \o pad_left_zeros(u128_to_string(frac_part), d)

\* Display without the zero padding of the fraction.
to_string_unpadded(x, d) ==
    LET integer == x \div FRACTIONAL(d)
        frac_part == x % FRACTIONAL(d)
    IN  IF frac_part = 0 THEN u128_to_string(integer)
        ELSE u128_to_string(integer) \o <<".">>
                 \o trim_end_matches_0(u128_to_string(frac_part))

\* impl Display for Decimal<d>
to_string(x, d) ==
    LET integer == x \div FRACTIONAL(d)
        frac_part == x % FRACTIONAL(d)
    IN  IF frac_part = 0 THEN u128_to_string(integer)
        ELSE LET frac_str == pad_left_zeros(u128_to_string(frac_part), d)
                 trimmed == trim_end_matches_0(frac_str)
             IN  u128_to_string(integer) \o <<".">> \o trimmed

\* impl FromStr for Decimal<d>
from_str(s, d, checks) ==
    LET parts == split_dot(s)
    IN  IF Len(parts) = 1
        THEN LET integer == parse_u128(parts[1])
             IN  IF ~IsOk(integer) THEN Err("ParseError", "Invalid integer")
                 ELSE native_mul(integer.val, FRACTIONAL(d), checks)
        ELSE IF Len(parts) = 2
        THEN LET integer == parse_u128(parts[1])
                 fractional_str == parts[2]
             IN  IF ~IsOk(integer) THEN Err("ParseError", "Invalid integer")
                 ELSE IF Len(fractional_str) > d
                 THEN Err("ParseError", "Too many decimal places")
                 ELSE LET fractional == parse_u128(fractional_str)
                      IN  IF ~IsOk(fractional) THEN Err("ParseError", "Invalid fractional")
                          ELSE LET scaled_fractional ==
                                       native_mul(fractional.val,
                                                  pow10(d - Len(fractional_str)), checks)
                                   whole == u128_checked_mul(integer.val, FRACTIONAL(d))
                               IN  IF ~IsOk(scaled_fractional) THEN scaled_fractional
                                   ELSE IF ~IsOk(whole) THEN Err("Overflow", "Overflow")
                                   ELSE LET total == u128_checked_add(whole.val,
                                                                      scaled_fractional.val)
                                        IN  IF IsOk(total) THEN total
                                            ELSE Err("Overflow", "Overflow")
        ELSE Err("ParseError", "Invalid decimal format")

---------------------------------------------------------------------------
(* Storage codec (serde_impl.rs): Serialize and DecimalVisitor::visit_str   *)

\* Serialize without rescaling the fraction from d to REF_DECIMALS places.
serialize_native(x, d) ==
    LET integer == x \div FRACTIONAL(d)
        fraction_d == x % FRACTIONAL(d)
    IN  IF fraction_d = 0 THEN u128_to_string(integer)
        ELSE u128_to_string(integer) \o <<".">>
                 \o trim_end_matches_0(pad_left_zeros(u128_to_string(fraction_d),
                                                      REF_DECIMALS))

\* Serialize without trimming the trailing zeros.
serialize_padded(x, d) ==
    LET integer == x \div FRACTIONAL(d)
        fraction_d == x % FRACTIONAL(d)
        fraction_18 == IF d >= REF_DECIMALS
                       THEN fraction_d \div pow10(d - REF_DECIMALS)
                       ELSE fraction_d * pow10(REF_DECIMALS - d)
    IN  IF fraction_d = 0 THEN u128_to_string(integer)
        ELSE u128_to_string(integer) \o <<".">>
                 \o pad_left_zeros(u128_to_string(fraction_18), REF_DECIMALS)

\* impl Serialize for Decimal<d>: the string handed to serialize_str
serialize(x, d) ==
    LET integer == x \div FRACTIONAL(d)
        fraction_d == x % FRACTIONAL(d)
    IN  IF fraction_d = 0 THEN u128_to_string(integer)
        ELSE LET fraction_18 == IF d >= REF_DECIMALS
                                THEN fraction_d \div pow10(d - REF_DECIMALS)
                                ELSE fraction_d * pow10(REF_DECIMALS - d)
                 frac_str == pad_left_zeros(u128_to_string(fraction_18), REF_DECIMALS)
                 trimmed == trim_end_matches_0(frac_str)
             IN  u128_to_string(integer) \o <<".">> \o trimmed

\* fractional_value rounding to nearest, not truncating, when it scales down.
fractional_value_rounding(fractional_str, d, checks) ==
    LET frac == parse_u128(fractional_str)
    IN  IF ~IsOk(frac) THEN Err("DeError", "Invalid fractional part")
        ELSE IF Len(fractional_str) <= d
        THEN native_mul(frac.val, pow10(d - Len(fractional_str)), checks)
        ELSE LET scale == pow10_runtime(Len(fractional_str) - d, checks)
             IN  IF ~IsOk(scale) THEN scale
                 ELSE IF scale.val = 0 THEN Panic("attempt to divide by zero")
                 ELSE Ok((frac.val + scale.val \div 2) \div scale.val)

\* The fractional_value of visit_str: the fractional segment scaled to d places.
fractional_value(fractional_str, d, checks) ==
    LET frac == parse_u128(fractional_str)
    IN  IF ~IsOk(frac) THEN Err("DeError", "Invalid fractional part")
        ELSE IF Len(fractional_str) <= d
        THEN native_mul(frac.val, pow10(d - Len(fractional_str)), checks)
        ELSE LET scale == pow10_runtime(Len(fractional_str) - d, checks)
             IN  IF ~IsOk(scale) THEN scale
                 ELSE IF scale.val = 0 THEN Panic("attempt to divide by zero")
                 ELSE Ok(frac.val \div scale.val)

\* visit_str taking the fractional digits as atomics, whatever their count.
visit_str_unscaled(v, d, checks) ==
    LET parts == split_dot(v)
        whole == parse_u128(parts[1])
    IN  IF Len(parts) = 1 /\ IsOk(whole) THEN native_mul(whole.val, FRACTIONAL(d), checks)
        ELSE IF Len(parts) = 2 /\ IsOk(whole) /\ IsOk(parse_u128(parts[2]))
                /\ whole.val * FRACTIONAL(d) + parse_u128(parts[2]).val <= U128_MAX
        THEN Ok(whole.val * FRACTIONAL(d) + parse_u128(parts[2]).val)
        ELSE Err("DeError", "Invalid decimal format")

\* DecimalVisitor::<d>::visit_str
visit_str(v, d, checks) ==
    LET parts == split_dot(v)
    IN  IF Len(parts) = 1
        THEN LET integer == parse_u128(parts[1])
             IN  IF ~IsOk(integer) THEN Err("DeError", "Invalid integer part")
                 ELSE native_mul(integer.val, FRACTIONAL(d), checks)
        ELSE IF Len(parts) = 2
        THEN LET integer == parse_u128(parts[1])
             IN  IF ~IsOk(integer) THEN Err("DeError", "Invalid integer part")
                 ELSE LET fv == fractional_value(parts[2], d, checks)
                          whole == u128_checked_mul(integer.val, FRACTIONAL(d))
                      IN  IF ~IsOk(fv) THEN fv
                          ELSE IF ~IsOk(whole)
                          THEN Err("DeError", "Overflow in decimal value")
                          ELSE LET total_atomics == u128_checked_add(whole.val, fv.val)
                               IN  IF IsOk(total_atomics) THEN total_atomics
                                   ELSE Err("DeError", "Overflow in decimal value")
        ELSE Err("DeError", "Invalid decimal format")

---------------------------------------------------------------------------
(* The reference decimal type (cosmwasm_std::Decimal, REF_DECIMALS places)  *)

\* impl From<Decimal<d>> for StdDecimal: the reference value's atomics
to_std_decimal(x, d) ==
    IF d >= REF_DECIMALS THEN Ok(x \div pow10(d - REF_DECIMALS))
    ELSE LET scaled == u128_checked_mul(x, pow10(REF_DECIMALS - d))
         IN  IF IsOk(scaled) THEN scaled ELSE Panic("unwrap on an Err value")

\* From<StdDecimal> rounding to the nearest value when it scales down.
from_std_decimal_rounding(atomics, d) ==
    IF d >= REF_DECIMALS THEN u128_mul(atomics, pow10(d - REF_DECIMALS))
    ELSE Ok((atomics + pow10(REF_DECIMALS - d) \div 2) \div pow10(REF_DECIMALS - d))

\* impl From<StdDecimal> for Decimal<d>, on the reference value's atomics
from_std_decimal(atomics, d) ==
    IF d >= REF_DECIMALS THEN u128_mul(atomics, pow10(d - REF_DECIMALS))
    ELSE Ok(atomics \div pow10(REF_DECIMALS - d))

\* The reference type's serialized string: the whole part unpadded and, if
\* the fraction is not zero, '.' and the fraction zero-padded to
\* REF_DECIMALS digits with its trailing zeros trimmed.
std_decimal_to_string(atomics) ==
    LET whole == atomics \div pow10(REF_DECIMALS)
        fractional == atomics % pow10(REF_DECIMALS)
    IN  IF fractional = 0 THEN u128_to_string(whole)
        ELSE u128_to_string(whole) \o <<".">>
                 \o trim_end_matches_0(pad_left_zeros(u128_to_string(fractional),
                                                      REF_DECIMALS))

---------------------------------------------------------------------------
(* Operand samples                                                         *)

\* The powers of ten the word holds, which are the FRACTIONALs.
PowersOfTen == {pow10(d) : d \in Precisions}

\* Operands of the binary operations: the small ones, the ones next to a
\* power of ten, the middle of the range and the ones next to MAX.
ArithOperands ==
    (0..MaxSmall)
    \cup {p - 1 : p \in PowersOfTen} \cup PowersOfTen \cup {p + 1 : p \in PowersOfTen}
    \cup {U128_MAX \div 2, U128_MAX \div 2 + 1, U128_MAX \div 3}
    \cup ((U128_MAX - MaxNear)..U128_MAX)

---------------------------------------------------------------------------
(* SpecArith: the binary operations on two values of one precision         *)

InitArith ==
    /\ pc = "start"
    /\ D \in Precisions
    /\ D2 = D
    /\ a \in ArithOperands
    /\ b \in ArithOperands
    /\ str = <<>>
    /\ str2 = <<>>
    /\ res = NoResult
    /\ overflow_checks = TRUE

Apply(op, r) ==
    /\ pc = "start"
    /\ pc' = op
    /\ res' = r
    /\ UNCHANGED <<D, D2, a, b, str, str2, overflow_checks>>

\* a + b
Add == Apply("add", add_impl(a, b))

\* a.checked_add(b)
CheckedAdd == Apply("checked_add", checked_add(a, b))

\* a * b
Mul == Apply("mul", mul_impl(a, b, D))

\* a.checked_mul(b)
CheckedMul == Apply("checked_mul", checked_mul(a, b, D))

\* a / b
Div == Apply("div", div_impl(a, b, D))

\* a.checked_div(b)
CheckedDiv == Apply("checked_div", checked_div(a, b, D))

\* d.mul_uint_floor(n), with b the raw amount n
MulUintFloor == Apply("mul_uint_floor", mul_uint_floor(a, b, D))

\* d.mul_uint_ceil(n), with b the raw amount n
MulUintCeil == Apply("mul_uint_ceil", mul_uint_ceil(a, b, D))

\* Decimal::<D>::from_ratio(a, b)
FromRatio == Apply("from_ratio", from_ratio(a, b, D))

\* a - b
Sub == Apply("sub", sub_impl(a, b))

\* a.checked_sub(b)
CheckedSub == Apply("checked_sub", checked_sub(a, b))

\* a.saturating_add(b)
SaturatingAdd == Apply("saturating_add", saturating_add(a, b))

\* a.saturating_sub(b)
SaturatingSub == Apply("saturating_sub", saturating_sub(a, b))

\* a.saturating_mul(b)
SaturatingMul == Apply("saturating_mul", saturating_mul(a, b, D))

\* a * n, with a decimal a and b the raw amount n
MulUint == Apply("mul_uint", mul_uint(a, b, D))

\* n * a, with b the raw amount n and a decimal a
UintMul == Apply("uint_mul", uint_mul(b, a, D))

\* a / n, with b the raw amount n
DivUint == Apply("div_uint", div_uint(a, b, D))

\* (a / b) * b: the product of the quotient the division returned and b
DivThenMul ==
    /\ pc = "div"
    /\ IsOk(res)
    /\ pc' = "div_mul"
    /\ res' = mul_impl(res.val, b, D)
    /\ UNCHANGED <<D, D2, a, b, str, str2, overflow_checks>>

\* a % b
Rem == Apply("rem", rem_impl(a, b))

\* a.checked_rem(b)
CheckedRem == Apply("checked_rem", checked_rem(a, b))

NextArith ==
    \/ Add \/ CheckedAdd \/ Mul \/ CheckedMul \/ Div \/ CheckedDiv
    \/ MulUintFloor \/ MulUintCeil
    \/ MulUint \/ UintMul \/ DivUint
    \/ DivThenMul
    \/ Rem \/ CheckedRem
    \/ FromRatio
    \/ Sub \/ CheckedSub
    \/ SaturatingAdd \/ SaturatingSub \/ SaturatingMul

SpecArith == InitArith /\ [][NextArith]_vars

---------------------------------------------------------------------------
(* Claims about the arithmetic core                                        *)

\* C1: Decimal::raw(a) + Decimal::raw(b) succeeds if and only if a + b fits
\* the native width, and then it is Decimal::raw(a + b); otherwise it
\* aborts.  checked_add returns None exactly when a + b does not fit, and
\* Some(raw(a + b)) otherwise.
C1_AddFitsIff ==
    /\ pc = "add" =>
          /\ IsOk(res) <=> a + b <= U128_MAX
          /\ IsOk(res) => res.val = a + b
          /\ ~IsOk(res) => res.tag = "Panic"
    /\ pc = "checked_add" =>
          /\ res.tag = "None" <=> a + b > U128_MAX
          /\ res.tag # "None" => res = Ok(a + b)

\* C1's case: a sum that just fits has been computed, and one that does not
\* has been refused.
C1_Witness ==
    \/ pc = "add" /\ a > 0 /\ b > 0 /\ a + b = U128_MAX /\ res = Ok(U128_MAX)
    \/ pc = "checked_add" /\ a + b = U128_MAX + 1 /\ res = NoneR

\* C5: x * Decimal::ONE succeeds and equals x, for every x, MAX included.
C5_MulIdentity ==
    (pc = "mul" /\ b = ONE(D)) => res = Ok(a)

\* C5's case: MAX * ONE at a precision with a fraction.
C5_Witness ==
    pc = "mul" /\ D > 0 /\ b = ONE(D) /\ a = MAX /\ res = Ok(MAX)

\* C6: x.checked_div(ZERO) is None for every x, and x / ZERO aborts with a
\* division-by-zero failure.
C6_DivByZero ==
    /\ (pc = "checked_div" /\ b = ZERO) => res = NoneR
    /\ (pc = "div" /\ b = ZERO) => res = Panic("Division by zero")

\* C6's case: a non-zero value has been divided by ZERO.
C6_Witness ==
    pc = "div" /\ a > 0 /\ b = ZERO /\ res.tag = "Panic"

---------------------------------------------------------------------------
(* SpecConv: conversion between precisions                                 *)

\* Operands of the unary operations: the small values, the values next to a
\* power of ten and next to MAX, and a spread over the whole range.
Atomics ==
    (0..MaxUnary) \cup ArithOperands
    \cup {x \in 0..U128_MAX : x % 250 = 0 \/ x % 997 = 3}

InitConv ==
    /\ pc = "start"
    /\ D \in Precisions
    /\ D2 \in Precisions
    /\ a \in Atomics
    /\ b = 0
    /\ str = <<>>
    /\ str2 = <<>>
    /\ res = NoResult
    /\ overflow_checks = TRUE

\* x.to_precision::<D2>()
ToPrecision == Apply("to_precision", to_precision(a, D, D2))

\* x.to_precision::<D2>().to_precision::<D>(): the second conversion, of the
\* value the first one returned (b keeps it).
ToPrecisionBack ==
    /\ pc = "to_precision"
    /\ IsOk(res)
    /\ pc' = "to_precision_back"
    /\ b' = res.val
    /\ res' = to_precision(res.val, D2, D)
    /\ UNCHANGED <<D, D2, a, str, str2, overflow_checks>>

\* StdDecimal::from(x)
ToStdDecimal == Apply("to_std_decimal", to_std_decimal(a, D))

\* Decimal::<D>::from(StdDecimal::from(x)): the conversion back, of the
\* reference value the first conversion returned (b keeps its atomics).
ToStdDecimalBack ==
    /\ pc = "to_std_decimal"
    /\ IsOk(res)
    /\ pc' = "to_std_decimal_back"
    /\ b' = res.val
    /\ res' = from_std_decimal(res.val, D)
    /\ UNCHANGED <<D, D2, a, str, str2, overflow_checks>>

\* Decimal::<D>::from(v), with a the atomics of the reference value v
FromStdDecimal == Apply("from_std_decimal", from_std_decimal(a, D))

\* x.try_to_precision::<D2>()
TryToPrecision == Apply("try_to_precision", try_to_precision(a, D, D2))

NextConv ==
    \/ ToPrecision \/ ToPrecisionBack \/ TryToPrecision
    \/ ToStdDecimal \/ ToStdDecimalBack \/ FromStdDecimal

SpecConv == InitConv /\ [][NextConv]_vars

\* C3 as stated: for D2 >= D and every x, converting to D2 and back succeeds
\* and yields x (so the first conversion returns a value, and the second
\* one returns x).
C3_RoundTripEveryValue ==
    /\ (pc = "to_precision" /\ D2 >= D) => IsOk(res)
    /\ (pc = "to_precision_back" /\ D2 >= D) => res = Ok(a)

\* C3 amended: for D2 >= D and every x with x * 10^(D2-D) within the native
\* width, converting to D2 returns x * 10^(D2-D) and converting back yields
\* x; for the other x the conversion to D2 aborts.
C3_RoundTripWhenFits ==
    /\ (pc = "to_precision" /\ D2 >= D) =>
          IF a * pow10(D2 - D) <= U128_MAX
          THEN res = Ok(a * pow10(D2 - D))
          ELSE res = Panic("precision conversion overflow")
    /\ (pc = "to_precision_back" /\ D2 >= D) =>
          /\ a * pow10(D2 - D) <= U128_MAX
          /\ res = Ok(a)

\* C3's case: a non-zero value widened by at least two places and narrowed back.
C3_Witness ==
    pc = "to_precision_back" /\ D2 >= D + 2 /\ a > 1 /\ b = a * pow10(D2 - D)
        /\ res = Ok(a)

---------------------------------------------------------------------------
(* SpecText: Display, and FromStr of what Display printed                  *)

InitText ==
    /\ pc = "start"
    /\ D \in Precisions
    /\ D2 = D
    /\ a \in Atomics
    /\ b = 0
    /\ str = <<>>
    /\ str2 = <<>>
    /\ res = NoResult
    /\ overflow_checks \in BOOLEAN

\* x.to_string()
ToString ==
    /\ pc = "start"
    /\ pc' = "to_string"
    /\ str' = to_string(a, D)
    /\ UNCHANGED <<D, D2, a, b, str2, res, overflow_checks>>

\* Decimal::<D>::from_str(&x.to_string())
FromStrOfToString ==
    /\ pc = "to_string"
    /\ pc' = "from_str"
    /\ res' = from_str(str, D, overflow_checks)
    /\ UNCHANGED <<D, D2, a, b, str, str2, overflow_checks>>

NextText == ToString \/ FromStrOfToString

SpecText == InitText /\ [][NextText]_vars

\* C2: for every precision D and every value x of Decimal<D>,
\* from_str(x.to_string()) returns Ok(x).
C2_TextRoundTrip ==
    pc = "from_str" => res = Ok(a)

\* C2's case: a value whose fraction has a leading and a trailing zero
\* (printed "i.0f", shorter than D digits) has been printed and parsed back.
C2_Witness ==
    /\ pc = "from_str"
    /\ D >= 3
    /\ a > FRACTIONAL(D)
    /\ Len(str) >= 4
    /\ str[Len(str) - 1] = "0"
    /\ str[Len(str) - 2] = "."
    /\ Len(split_dot(str)[2]) < D
    /\ res = Ok(a)

---------------------------------------------------------------------------
(* SpecSerde: Serialize, and visit_str of what Serialize wrote             *)

InitSerde ==
    /\ pc = "start"
    /\ D \in Precisions
    /\ D2 \in Precisions
    /\ a \in Atomics
    /\ b = 0
    /\ str = <<>>
    /\ str2 = <<>>
    /\ res = NoResult
    /\ overflow_checks \in BOOLEAN

\* serde_json::to_string(&x): the string written for x
Serialize ==
    /\ pc = "start"
    /\ pc' = "serialize"
    /\ str' = serialize(a, D)
    /\ UNCHANGED <<D, D2, a, b, str2, res, overflow_checks>>

\* serde_json::from_str::<Decimal<D2>>(&json) of the string written for x
Deserialize ==
    /\ pc = "serialize"
    /\ pc' = "deserialize"
    /\ res' = visit_str(str, D2, overflow_checks)
    /\ UNCHANGED <<D, D2, a, b, str, str2, overflow_checks>>

\* The same real value serialized at D and at D2: x, and x converted to D2
\* (b keeps the converted atomics).
SerializeConverted ==
    /\ pc = "start"
    /\ IsOk(try_to_precision(a, D, D2))
    /\ pc' = "serialize_converted"
    /\ b' = try_to_precision(a, D, D2).val
    /\ str' = serialize(a, D)
    /\ str2' = serialize(try_to_precision(a, D, D2).val, D2)
    /\ UNCHANGED <<D, D2, a, res, overflow_checks>>

\* x serialized, and StdDecimal::from(x) serialized by the reference type
\* (b keeps the reference atomics).
SerializeStd ==
    /\ pc = "start"
    /\ IsOk(to_std_decimal(a, D))
    /\ pc' = "serialize_std"
    /\ b' = to_std_decimal(a, D).val
    /\ str' = serialize(a, D)
    /\ str2' = std_decimal_to_string(to_std_decimal(a, D).val)
    /\ UNCHANGED <<D, D2, a, res, overflow_checks>>

NextSerde == Serialize \/ Deserialize \/ SerializeConverted \/ SerializeStd

SpecSerde == InitSerde /\ [][NextSerde]_vars

\* Whether the value with atomics x at precision d is exactly representable
\* at precision d2 within the native width.
RepresentableAt(x, d, d2) ==
    IF d2 >= d THEN x * pow10(d2 - d) <= U128_MAX
    ELSE x % pow10(d - d2) = 0

\* C4: for any two precisions D1 and D2 and any value exactly representable
\* at both, the string serialized at D1 is the string serialized at D2.
C4_SerializeCrossCompatible ==
    (pc = "serialize_converted" /\ RepresentableAt(a, D, D2)) => str = str2

\* C4's case: a value with a fraction serialized at two different
\* precisions, one below and one above the reference precision.
C4_Witness ==
    /\ pc = "serialize_converted"
    /\ D < REF_DECIMALS
    /\ D2 > REF_DECIMALS
    /\ a % FRACTIONAL(D) # 0
    /\ b = a * pow10(D2 - D)
    /\ str = str2
    /\ Len(str) >= 3

C9_StorageRoundTrip ==
    (pc = "deserialize" /\ D2 = D /\ D <= REF_DECIMALS) => res = Ok(a)

\* C9's case: a value with a two-digit fraction at the reference precision.
C9_Witness ==
    /\ pc = "deserialize"
    /\ D2 = D
    /\ D = REF_DECIMALS
    /\ a > FRACTIONAL(D)
    /\ a % 10 # 0
    /\ a % FRACTIONAL(D) > 10
    /\ res = Ok(a)

\* C10: for all precisions D1, D2 <= REF_DECIMALS and every value x of
\* Decimal<D1> whose conversion fits, deserializing as Decimal<D2> the string
\* serialized from x yields exactly x.to_precision::<D2>().
C10_CrossPrecisionInterchange ==
    (pc = "deserialize" /\ D <= REF_DECIMALS /\ D2 <= REF_DECIMALS
        /\ IsOk(to_precision(a, D, D2)))
    => res = to_precision(a, D, D2)

\* C10's case: a value decoded at a lower precision, where digits are cut.
C10_Witness ==
    /\ pc = "deserialize"
    /\ D = REF_DECIMALS
    /\ D2 < D
    /\ a % pow10(D - D2) # 0
    /\ res = Ok(a \div pow10(D - D2))

---------------------------------------------------------------------------
(* SpecParse: FromStr and visit_str on input strings                       *)

Alphabet == {"0", "1", "4", ".", "+", "x"}

RECURSIVE StringsUpTo(_)
StringsUpTo(n) ==
    IF n = 0 THEN {<<>>}
    ELSE LET shorter == StringsUpTo(n - 1)
         IN  shorter \cup {Append(s, c) : s \in shorter, c \in Alphabet}

RECURSIVE Zeros(_)
Zeros(n) == IF n = 0 THEN <<>> ELSE <<"0">> \o Zeros(n - 1)

\* "0.0...0c": a fractional segment of k zeros and a last digit.
LongFractions ==
    {<<"0", ".">> \o Zeros(k) \o <<c>> : k \in 0..MaxFracZeros, c \in {"0", "1"}}

\* The integers next to the native maximum, and one past it.
BoundaryIntegers ==
    {u128_to_string(n) : n \in (U128_MAX - MaxNear)..U128_MAX}
    \cup {u128_to_string(U128_MAX \div 10) \o <<"9">>}

InputStrings == StringsUpTo(MaxStrLen) \cup LongFractions \cup BoundaryIntegers

InitParse ==
    /\ pc = "start"
    /\ D \in Precisions
    /\ D2 = D
    /\ a = 0
    /\ b = 0
    /\ str \in InputStrings
    /\ str2 = <<>>
    /\ res = NoResult
    /\ overflow_checks \in BOOLEAN

\* Decimal::<D>::from_str(s)
FromStr == Apply("from_str", from_str(str, D, overflow_checks))

\* serde_json::from_str::<Decimal<D>>: visit_str(s)
VisitStr == Apply("visit_str", visit_str(str, D, overflow_checks))

NextParse == FromStr \/ VisitStr

SpecParse == InitParse /\ [][NextParse]_vars

\* The value of a digit string as a number, where it fits the native width.
DigitsValue(s) == parse_digits(s, 0).val

\* Whether s is digits '.' digits, or digits alone, each number within the
\* native width: the texts that denote a value.
WellFormed(s) ==
    LET parts == split_dot(s)
    IN  /\ Len(parts) \in {1, 2}
        /\ \A i \in 1..Len(parts) :
              Len(parts[i]) > 0 /\ IsOk(parse_digits(parts[i], 0))

\* The value of a well-formed text scaled to d places: integer * 10^d plus
\* the fraction's first d digits (the digits past d are cut).
ScaledValue(s, d) ==
    LET parts == split_dot(s)
        whole == DigitsValue(parts[1]) * pow10(d)
    IN  IF Len(parts) = 1 THEN whole
        ELSE IF Len(parts[2]) <= d
        THEN whole + DigitsValue(parts[2]) * pow10(d - Len(parts[2]))
        ELSE whole + DigitsValue(SubSeq(parts[2], 1, d))

\* C8: for every input string, from_str and deserialization return either a
\* value whose atomics are the scaled value of the text or a recoverable
\* error; neither panics, and neither returns a wrapped-around value.
C8_ParseNeverPanicsNorWraps ==
    pc \in {"from_str", "visit_str"} =>
        \/ res.tag \in ErrorTags
        \/ /\ IsOk(res)
           /\ WellFormed(str) => res.val = ScaledValue(str, D)

---------------------------------------------------------------------------
(* Claims about the raw-amount helpers and the constructors                *)

\* C11: mul_uint_ceil(d, n) is the ceiling of d.atomics * n / FRACTIONAL:
\* mul_uint_floor(d, n) when d.atomics * n is an exact multiple of
\* FRACTIONAL, and mul_uint_floor(d, n) + 1 when the truncated remainder is
\* not zero (stated where that ceiling fits the raw-amount width).
C11_MulUintCeilIsCeiling ==
    (pc = "mul_uint_ceil" /\ (a * b) \div FRACTIONAL(D) < U128_MAX) =>
        IF (a * b) % FRACTIONAL(D) = 0
        THEN res = mul_uint_floor(a, b, D)
        ELSE res = Ok(mul_uint_floor(a, b, D).val + 1)
---------------------------------------------------------------------------
(* SpecCtor: the constructors from_atomics, percent, permille and bps      *)

\* Values given to the constructors.
CtorValues == ArithOperands \cup {x \in 0..U128_MAX : x % 101 = 7}

InitCtor ==
    /\ pc = "start"
    /\ D \in Precisions
    /\ D2 = D
    /\ a \in CtorValues
    /\ b \in 0..MaxDecimals
    /\ str = <<>>
    /\ str2 = <<>>
    /\ res = NoResult
    /\ overflow_checks \in BOOLEAN

\* Decimal::<D>::from_atomics(a, b): b is the input's number of decimals
FromAtomics == Apply("from_atomics", from_atomics(a, b, D, overflow_checks))

\* Decimal::<D>::percent(a), a: u64
Percent ==
    /\ a <= U64_MAX
    /\ Apply("percent", percent(a, D))

\* Decimal::<D>::permille(a), a: u64
Permille ==
    /\ a <= U64_MAX
    /\ Apply("permille", permille(a, D))

\* Decimal::<D>::bps(a), a: u64
Bps ==
    /\ a <= U64_MAX
    /\ Apply("bps", bps(a, D))

NextCtor == FromAtomics \/ Percent \/ Permille \/ Bps

SpecCtor == InitCtor /\ [][NextCtor]_vars

RECURSIVE DivPow10(_, _)
DivPow10(v, k) == IF k = 0 THEN v ELSE DivPow10(v \div 10, k - 1)

\* C12: from_atomics(value, input_decimals) is value * 10^(D - input_decimals)
\* or an Overflow error when input_decimals < D, value when they are equal,
\* and value / 10^(input_decimals - D) truncated, never an error or an
\* abort, when input_decimals > D, however large input_decimals is.
C12_FromAtomicsScaling ==
    pc = "from_atomics" =>
        IF b < D
        THEN IF a * pow10(D - b) <= U128_MAX
             THEN res = Ok(a * pow10(D - b))
             ELSE res.tag = "Overflow"
        ELSE IF b = D THEN res = Ok(a)
        ELSE res = Ok(DivPow10(a, b - D))
\* C13: percent(x), permille(x) and bps(x) have atomics x * FRACTIONAL / 100,
\* / 1000 and / 10000 (the product first, then the truncating division),
\* for every D and every x for which the product fits.
C13_PercentMultipliesFirst ==
    a * FRACTIONAL(D) <= U128_MAX =>
        /\ pc = "percent" => res = Ok((a * FRACTIONAL(D)) \div 100)
        /\ pc = "permille" => res = Ok((a * FRACTIONAL(D)) \div 1000)
        /\ pc = "bps" => res = Ok((a * FRACTIONAL(D)) \div 10000)
\* C14: from_ratio(n, d) aborts when d is zero; otherwise it is
\* floor(n * FRACTIONAL / d), computed without overflow of the intermediate
\* product, and it aborts exactly when that quotient does not fit the word.
C14_FromRatio ==
    pc = "from_ratio" =>
        IF b = 0 THEN res = Panic("Denominator must not be zero")
        ELSE IF (a * FRACTIONAL(D)) \div b <= U128_MAX
             THEN res = Ok((a * FRACTIONAL(D)) \div b)
             ELSE res = Panic("ratio overflow")

\* A truncated ratio whose product n * FRACTIONAL does not fit the word.
C14_Witness ==
    /\ pc = "from_ratio"
    /\ IsOk(res)
    /\ a * FRACTIONAL(D) > U128_MAX
    /\ (a * FRACTIONAL(D)) % b # 0
---------------------------------------------------------------------------
(* Claims about the reference type, the saturating operations and pow      *)

\* C15 as stated: for D <= REF_DECIMALS and every x, converting x to the
\* reference type and back succeeds and yields x; the other way, a
\* reference value v becomes v.atomics / 10^(REF_DECIMALS - D), truncated.
C15_StdRoundTripEveryValue ==
    D <= REF_DECIMALS =>
        /\ pc = "to_std_decimal" => IsOk(res)
        /\ pc = "to_std_decimal_back" => res = Ok(a)
        /\ pc = "from_std_decimal" => res = Ok(a \div pow10(REF_DECIMALS - D))

\* C15 amended: for D <= REF_DECIMALS and every x with
\* x * 10^(REF_DECIMALS - D) within the native width, converting x to the
\* reference type gives those atomics and converting back yields x; for the
\* other x the conversion to the reference type aborts.  The other way, a
\* reference value v becomes v.atomics / 10^(REF_DECIMALS - D), truncated.
C15_StdRoundTripWhenFits ==
    D <= REF_DECIMALS =>
        /\ pc = "to_std_decimal" =>
              IF a * pow10(REF_DECIMALS - D) <= U128_MAX
              THEN res = Ok(a * pow10(REF_DECIMALS - D))
              ELSE res.tag = "Panic"
        /\ pc = "to_std_decimal_back" =>
              /\ a * pow10(REF_DECIMALS - D) <= U128_MAX
              /\ res = Ok(a)
        /\ pc = "from_std_decimal" => res = Ok(a \div pow10(REF_DECIMALS - D))

\* C15's case: a value of a precision below the reference one that came
\* back from the reference type.
C15_Witness ==
    /\ pc = "to_std_decimal_back"
    /\ D < REF_DECIMALS
    /\ a > 1
    /\ b = a * pow10(REF_DECIMALS - D)
    /\ res = Ok(a)

\* C15's other case: a reference value that lost digits on the way in.
C15_WitnessTruncated ==
    /\ pc = "from_std_decimal"
    /\ D < REF_DECIMALS
    /\ a % pow10(REF_DECIMALS - D) # 0
    /\ IsOk(res)
C17_CheckedSub ==
    /\ pc = "checked_sub" =>
          /\ res = NoneR <=> b > a
          /\ b <= a => res = Ok(a - b)
    /\ pc = "sub" =>
          /\ res.tag = "Panic" <=> checked_sub(a, b) = NoneR
          /\ res.tag # "Panic" => res = checked_sub(a, b)

\* A subtraction of the next larger value.
C17_Witness ==
    /\ pc = "checked_sub"
    /\ b = a + 1
    /\ res = NoneR
---------------------------------------------------------------------------
(* SpecPow: pow and checked_pow of a value and an exponent                 *)

InitPow ==
    /\ pc = "start"
    /\ D \in Precisions
    /\ D2 = D
    /\ a \in Atomics
    /\ b \in 0..MaxExp
    /\ str = <<>>
    /\ str2 = <<>>
    /\ res = NoResult
    /\ overflow_checks = TRUE

\* a.checked_pow(b)
CheckedPow == Apply("checked_pow", checked_pow(a, b, D))

\* a.pow(b)
Pow == Apply("pow", pow(a, b, D))

NextPow == CheckedPow \/ Pow

SpecPow == InitPow /\ [][NextPow]_vars

\* The n-th truncated power of x, n >= 1: x multiplied by itself n - 1
\* times, each product divided by FRACTIONAL and truncated; -1 when one of
\* the products does not fit the word.
RECURSIVE TruncatedPower(_, _, _)
TruncatedPower(x, n, d) ==
    IF n = 1 THEN x
    ELSE LET p == TruncatedPower(x, n - 1, d)
         IN  IF p = -1 \/ (p * x) \div FRACTIONAL(d) > U128_MAX THEN -1
             ELSE (p * x) \div FRACTIONAL(d)

\* C18: checked_pow(x, n) is x multiplied by itself n - 1 times, each
\* product truncated; pow(0) is ONE for every x, ZERO included; pow(1) is x;
\* ZERO.pow(n > 0) is ZERO; checked_pow is None, and pow aborts, if and only
\* if some intermediate product does not fit.
C18_CheckedPow ==
    /\ pc = "checked_pow" =>
          /\ b = 0 => res = Ok(ONE(D))
          /\ b = 1 => res = Ok(a)
          /\ (a = ZERO /\ b > 0) => res = Ok(ZERO)
          /\ b >= 1 =>
                IF TruncatedPower(a, b, D) = -1 THEN res = NoneR
                ELSE res = Ok(TruncatedPower(a, b, D))
    /\ pc = "pow" =>
          /\ res.tag = "Panic" <=> checked_pow(a, b, D) = NoneR
          /\ res.tag # "Panic" => res = checked_pow(a, b, D)
          /\ b = 0 => res = Ok(ONE(D))

\* A value above one with a fraction, raised to a power of three or more
\* that still fits.
C18_Witness ==
    /\ pc = "checked_pow"
    /\ b >= 3
    /\ D >= 1
    /\ a > FRACTIONAL(D)
    /\ a % FRACTIONAL(D) # 0
    /\ IsOk(res)
    /\ res.val > a

\* A power whose first products fit and whose last one does not.
C18_WitnessOverflow ==
    /\ pc = "pow"
    /\ b >= 3
    /\ IsOk(checked_pow(a, b - 1, D))
    /\ res = Panic("overflow in pow")
---------------------------------------------------------------------------
(* Claims about the text format                                            *)

\* Whether s is the decimal numeral of n: digits only, no leading zero
\* except for "0" itself, and the value n.
IsNumeralOf(s, n) ==
    /\ Len(s) >= 1
    /\ \A i \in 1..Len(s) : IsDigit(s[i])
    /\ Len(s) > 1 => s[1] # "0"
    /\ DigitsValue(s) = n

\* C19: Display prints the integer part alone when the remainder is zero;
\* otherwise the integer part, '.', and the fraction: the remainder
\* left-zero-padded to D digits with its trailing zeros removed, so 1 to D
\* digits that never end in '0'.
C19_DisplayFormat ==
    pc = "to_string" =>
        LET integer == a \div FRACTIONAL(D)
            remainder == a % FRACTIONAL(D)
            parts == split_dot(str)
        IN  IF remainder = 0
            THEN Len(parts) = 1 /\ IsNumeralOf(str, integer)
            ELSE /\ Len(parts) = 2
                 /\ IsNumeralOf(parts[1], integer)
                 /\ Len(parts[2]) \in 1..D
                 /\ \A i \in 1..Len(parts[2]) : IsDigit(parts[2][i])
                 /\ parts[2][Len(parts[2])] # "0"
                 /\ DigitsValue(parts[2]) * pow10(D - Len(parts[2])) = remainder

\* A printed value whose fraction lost trailing zeros and kept a leading one.
C19_Witness ==
    /\ pc = "to_string"
    /\ D >= 3
    /\ a % FRACTIONAL(D) # 0
    /\ Len(split_dot(str)) = 2
    /\ split_dot(str)[2][1] = "0"
    /\ Len(split_dot(str)[2]) < D
\* Whether s is a non-empty run of ASCII digits.
IsDigitRun(s) == Len(s) >= 1 /\ \A i \in 1..Len(s) : IsDigit(s[i])

\* The texts the text format admits at precision d: a digit run, or a digit
\* run, one '.', and a digit run of at most d digits.
AcceptedShape(s, d) ==
    LET parts == split_dot(s)
    IN  \/ Len(parts) = 1 /\ IsDigitRun(parts[1])
        \/ /\ Len(parts) = 2
           /\ IsDigitRun(parts[1])
           /\ IsDigitRun(parts[2])
           /\ Len(parts[2]) <= d

\* C20: from_str accepts a string only if it is a non-empty run of ASCII
\* digits, or such a run followed by one '.' and 1 to D digits; a fractional
\* segment longer than D, more than one '.', an empty segment, or any
\* non-digit (a sign character included) in either segment is a ParseError.
C20_FromStrAcceptedShape ==
    pc = "from_str" =>
        /\ IsOk(res) => AcceptedShape(str, D)
        /\ ~AcceptedShape(str, D) => res.tag = "ParseError"
---------------------------------------------------------------------------
(* Claims about deserialization and precision conversion                   *)

\* C21: deserialization into Decimal<D> accepts a digit-only fractional
\* segment of any length L: for L <= D the fraction is scaled up by
\* 10^(D-L); for every L > D, long segments with leading zeros included, it
\* is divided by 10^(L-D), truncated, and added to integer * FRACTIONAL
\* (stated for the texts whose value fits the native width).
C21_LongFractionAccepted ==
    LET parts == split_dot(str)
    IN  (/\ pc = "visit_str"
         /\ Len(parts) = 2
         /\ IsDigitRun(parts[1])
         /\ IsDigitRun(parts[2])
         /\ IsOk(parse_digits(parts[1], 0))
         /\ ScaledValue(str, D) <= U128_MAX)
            => res = Ok(ScaledValue(str, D))
\* C22: try_to_precision::<D2>(x) is None if and only if D2 > D and
\* x * 10^(D2-D) does not fit the native width; for D2 < D it is
\* Some(x / 10^(D-D2)), truncated; for D2 = D it is Some(x); to_precision
\* aborts exactly when try_to_precision is None and otherwise returns the
\* same value.
C22_TryToPrecision ==
    /\ pc = "try_to_precision" =>
          /\ res = NoneR <=> (D2 > D /\ a * pow10(D2 - D) > U128_MAX)
          /\ D2 < D => res = Ok(a \div pow10(D - D2))
          /\ D2 = D => res = Ok(a)
          /\ (D2 > D /\ a * pow10(D2 - D) <= U128_MAX) =>
                res = Ok(a * pow10(D2 - D))
    /\ pc = "to_precision" =>
          /\ res.tag = "Panic" <=> try_to_precision(a, D, D2) = NoneR
          /\ res.tag # "Panic" => res = try_to_precision(a, D, D2)

\* A widening of a value well below MAX that does not fit.
C22_Witness ==
    /\ pc = "try_to_precision"
    /\ D2 > D
    /\ a < U128_MAX \div 2
    /\ res = NoneR

\* C23: for D2 < D and every x, narrowing to D2 and widening back to D
\* never fails and yields y <= x, with y = x if and only if x is an exact
\* multiple of 10^(D-D2).
C23_NarrowThenWiden ==
    /\ (pc = "to_precision" /\ D2 < D) => IsOk(res)
    /\ (pc = "to_precision_back" /\ D2 < D) =>
          /\ IsOk(res)
          /\ res.val <= a
          /\ res.val = a <=> a % pow10(D - D2) = 0

\* A value that lost non-zero digits on the way down and came back smaller.
C23_Witness ==
    /\ pc = "to_precision_back"
    /\ D2 < D
    /\ b > 0
    /\ IsOk(res)
    /\ res.val < a
---------------------------------------------------------------------------
(* Claims about multiplication, division and rounding                      *)

\* C24: checked_mul(a, b) is Some(floor(a * b / FRACTIONAL)) whenever that
\* quotient fits the native width, even when a * b itself does not, and is
\* None if and only if the quotient does not fit.
C24_CheckedMul ==
    pc = "checked_mul" =>
        IF (a * b) \div FRACTIONAL(D) <= U128_MAX
        THEN res = Ok((a * b) \div FRACTIONAL(D))
        ELSE res = NoneR

\* A truncated product whose a * b does not fit the word.
C24_Witness ==
    /\ pc = "checked_mul"
    /\ a * b > U128_MAX
    /\ (a * b) % FRACTIONAL(D) # 0
    /\ IsOk(res)

\* C25: for every a and every non-zero b, checked_div(a, b) is
\* Some(floor(a * FRACTIONAL / b)) whenever that quotient fits the native
\* width and None if and only if it does not; the scaled numerator
\* a * FRACTIONAL never fails by itself, for any a.
C25_CheckedDiv ==
    (pc = "checked_div" /\ b # 0) =>
        /\ IsOk(u256_checked_mul(a, FRACTIONAL(D)))
        /\ IF (a * FRACTIONAL(D)) \div b <= U128_MAX
           THEN res = Ok((a * FRACTIONAL(D)) \div b)
           ELSE res = NoneR

\* A truncated quotient whose scaled numerator does not fit the word.
C25_Witness ==
    /\ pc = "checked_div"
    /\ b > 1
    /\ a * FRACTIONAL(D) > U128_MAX
    /\ (a * FRACTIONAL(D)) % b # 0
    /\ IsOk(res)
---------------------------------------------------------------------------
(* SpecRound: floor, ceil and the conversions to a raw amount              *)

InitRound ==
    /\ pc = "start"
    /\ D \in Precisions
    /\ D2 = D
    /\ a \in Atomics
    /\ b = 0
    /\ str = <<>>
    /\ str2 = <<>>
    /\ res = NoResult
    /\ overflow_checks = TRUE

\* x.floor()
Floor == Apply("floor", floor(a, D))

\* x.ceil()
Ceil == Apply("ceil", ceil(a, D))

\* x.to_uint_floor()
ToUintFloor == Apply("to_uint_floor", to_uint_floor(a, D))

\* x.to_uint_ceil()
ToUintCeil == Apply("to_uint_ceil", to_uint_ceil(a, D))

NextRound == Floor \/ Ceil \/ ToUintFloor \/ ToUintCeil

SpecRound == InitRound /\ [][NextRound]_vars

\* The whole part of the smallest whole number greater than or equal to x.
CeilWhole(x, d) ==
    IF x % FRACTIONAL(d) = 0 THEN x \div FRACTIONAL(d)
    ELSE x \div FRACTIONAL(d) + 1

\* C26: for every x, floor(x) has atomics (x / FRACTIONAL) * FRACTIONAL;
\* ceil(x) is the smallest whole-number value greater than or equal to x:
\* floor(x) when x is whole and floor(x) + ONE otherwise; to_uint_ceil(x) is
\* that value's whole part.
C26_FloorCeil ==
    /\ pc = "floor" => res = Ok((a \div FRACTIONAL(D)) * FRACTIONAL(D))
    /\ pc = "to_uint_ceil" => res = Ok(CeilWhole(a, D))
    /\ pc = "ceil" => res = Ok(CeilWhole(a, D) * FRACTIONAL(D))
\* C27: for every decimal d and raw amount n, d * n and n * d are the same
\* raw amount floor(d.atomics * n / FRACTIONAL) and abort only when that
\* quotient does not fit the raw-amount width; d / n is the decimal with
\* atomics floor(d.atomics / n), not rescaled, and aborts with a
\* division-by-zero failure when n is zero.
C27_UintInterop ==
    /\ pc \in {"mul_uint", "uint_mul"} =>
          IF (a * b) \div FRACTIONAL(D) <= U128_MAX
          THEN res = Ok((a * b) \div FRACTIONAL(D))
          ELSE res = Panic("multiplication result exceeds Uint128 range")
    /\ pc = "div_uint" =>
          IF b = 0 THEN res = Panic("Division by zero")
          ELSE res = Ok(a \div b)

\* A decimal with a fraction divided by a raw amount that leaves a remainder.
C27_Witness ==
    /\ pc = "div_uint"
    /\ D >= 1
    /\ b > 1
    /\ a % b # 0
    /\ a > b
    /\ IsOk(res)

\* An amount times a decimal whose product passes through the double width.
C27_WitnessMul ==
    /\ pc = "uint_mul"
    /\ a * b > U128_MAX
    /\ (a * b) % FRACTIONAL(D) # 0
    /\ IsOk(res)
\* C28: truncation never rounds up: for every a and non-zero b for which
\* a / b succeeds, (a / b) * b succeeds and is at most a, and is strictly
\* less than a whenever the division discarded a non-zero remainder (the
\* multiplication never recovers one).
C28_TruncationNeverRoundsUp ==
    pc = "div_mul" =>
        /\ b # 0
        /\ IsOk(res)
        /\ res.val <= a
        /\ (a * FRACTIONAL(D)) % b # 0 => res.val < a
        /\ (a * FRACTIONAL(D)) % b = 0 => res.val = a

\* ONE divided by a larger value and multiplied back is below ONE.
C28_Witness ==
    /\ pc = "div_mul"
    /\ D >= 1
    /\ a = ONE(D)
    /\ b > ONE(D)
    /\ IsOk(res)
    /\ res.val > 0
    /\ res.val < a
---------------------------------------------------------------------------
(* Claims about the operators and the serialized form                      *)

\* Whether an operator's outcome r agrees with the checked method's outcome
\* c: the same value when c is Some, an abort when c is None.
Agrees(r, c) ==
    IF IsOk(c) THEN r = c ELSE c = NoneR /\ r.tag = "Panic"

\* C29: for each of +, -, *, / and % and all a, b, the operator returns v if
\* and only if the checked method returns Some(v), and aborts if and only
\* if the checked method returns None.
C29_OperatorsAgreeWithChecked ==
    /\ pc = "add" => Agrees(res, checked_add(a, b))
    /\ pc = "sub" => Agrees(res, checked_sub(a, b))
    /\ pc = "mul" => Agrees(res, checked_mul(a, b, D))
    /\ pc = "div" => Agrees(res, checked_div(a, b, D))
    /\ pc = "rem" => Agrees(res, checked_rem(a, b))

\* A remainder by zero: the operator aborted where checked_rem is None.
C29_Witness ==
    /\ pc = "rem"
    /\ a > 0
    /\ b = 0
    /\ checked_rem(a, b) = NoneR
    /\ res.tag = "Panic"

\* A remainder that is not zero: the operator returned what checked_rem does.
C29_WitnessValue ==
    /\ pc = "rem"
    /\ b > 1
    /\ a > b
    /\ a % b # 0
    /\ res = checked_rem(a, b)
\* C30: for every precision D, those above the reference precision
\* included, and every x, the serialized string is well formed: digits only,
\* or digits, one '.', and at least one fraction digit with no trailing '0';
\* it never has an empty fraction after the '.', and deserialization into
\* Decimal<D> always accepts it.
C30_SerializedWellFormed ==
    /\ pc = "serialize" =>
          LET parts == split_dot(str)
          IN  \/ Len(parts) = 1 /\ IsDigitRun(parts[1])
              \/ /\ Len(parts) = 2
                 /\ IsDigitRun(parts[1])
                 /\ IsDigitRun(parts[2])
                 /\ parts[2][Len(parts[2])] # "0"
    /\ (pc = "deserialize" /\ D2 = D) => IsOk(res)

===========================================================================
